---- MODULE Spec2Model ----
(***************************************************************************)
(* A model of aiorecollect's Client (aiorecollect/client.py): the session  *)
(* handling and error translation of _async_request, the query built by    *)
(* _async_get_pickup_data, the parsing loop of async_get_pickup_events and *)
(* the scan of async_get_next_pickup_event.                                *)
(*                                                                         *)
(* Python values are represented as follows.  None is the string "None".   *)
(* A key that a JSON object does not have is the string "<absent>".  A     *)
(* date object is a record [y, m, d]; a missing date argument is NoDate.   *)
(* An exception is the name of its class.                                  *)
(***************************************************************************)
EXTENDS Integers, Sequences, FiniteSets, TLC

VARIABLES
    session,      \* self._session: [given, closed]
    created,      \* status of every ClientSession the client constructed, in order
    clientClosed, \* TRUE once the client has called close() on self._session
    pc,           \* position of the caller: "idle", "requesting", "closing", "done"
    op,           \* the public method being awaited
    args,         \* its arguments [start_date, end_date]
    request,      \* the request in flight: [on, use_running_session, path, query];
                  \* on is 0 for self._session, i for the i-th constructed session
    pending,      \* what the try block left for the finally clause: [raised, data, on]
    reply,        \* what the server and the network did: [kind, body]
    result,       \* how the call ended: [status, pickup_events, event]
    calls         \* number of calls started so far

vars == <<session, created, clientClosed, pc, op, args, request, pending,
          reply, result, calls>>

-----------------------------------------------------------------------------
(* Bounds *)

MaxEvents == 2

MaxFlags == 2

MaxCalls == 2

-----------------------------------------------------------------------------
(* Values *)

None == "None"

Absent == "<absent>"

NoDate == [y |-> 0, m |-> 0, d |-> 0]

Today == [y |-> 2020, m |-> 11, d |-> 2]

API_URL_SCAFFOLD == "https://api.recollect.net/api/places/{0}/services/{1}/events"

DayStrings == {"2020-10-31", "2020-11-02", "2020-11-16"}

StartDates == {NoDate, [y |-> 2020, m |-> 11, d |-> 1]}

EndDates == {NoDate, [y |-> 2020, m |-> 11, d |-> 10]}

\* The flags of the model: <<event_type, area_name, subject>>.
FlagShapes ==
    { <<"pickup", Absent, Absent>>,
      <<"pickup", None, "Trash">>,
      <<"pickup", "Atlantis", Absent>>,
      <<"pickup", "Atlantis", "Trash">>,
      <<"pickup", "GuelphON", "Trash">>,
      <<"reminder", "GuelphON", Absent>> }

Flags ==
    { [event_type |-> s[1], name |-> "garbage", area_name |-> s[2], subject |-> s[3]] :
        s \in FlagShapes }

SeqUpTo(S, n) == UNION { [1..k -> S] : k \in 0..n }

\* An event without a "flags" key has flags = Absent, represented as has_flags = FALSE.
Events ==
    { [day |-> dy, has_flags |-> FALSE, flags |-> <<>>] : dy \in DayStrings }
    \cup
    { [day |-> dy, has_flags |-> TRUE, flags |-> fl] :
        dy \in DayStrings, fl \in SeqUpTo(Flags, MaxFlags) }

Bodies == SeqUpTo(Events, MaxEvents)

-----------------------------------------------------------------------------
(* datetime *)

\* datetime.strptime(s, "%Y-%m-%d").date() on the day strings of the model
Strptime(s) ==
    CASE s = "2020-10-31" -> [y |-> 2020, m |-> 10, d |-> 31]
      [] s = "2020-11-02" -> [y |-> 2020, m |-> 11, d |-> 2]
      [] s = "2020-11-16" -> [y |-> 2020, m |-> 11, d |-> 16]

\* date.__ge__
DateGE(a, b) ==
    \/ a.y > b.y
    \/ a.y = b.y /\ a.m > b.m
    \/ a.y = b.y /\ a.m = b.m /\ a.d >= b.d

Pad2(n) == IF n < 10 THEN "0" \o ToString(n) ELSE ToString(n)

\* date.isoformat()
IsoFormat(dt) == ToString(dt.y) \o "-" \o Pad2(dt.m) \o "-" \o Pad2(dt.d)

-----------------------------------------------------------------------------
(* async_get_pickup_events: the parsing loop *)

\* dict.get(key): None when the key is missing
Get(v) == IF v = Absent THEN None ELSE v

\* truthiness of an area name
Truthy(v) == v # None /\ v # ""

\* line 153: the flags the inner loop does not skip
IsPickupFlag(flag) == Get(flag.event_type) = "pickup"

\* a variant that looks the area name up on every pickup flag
NeedsAreaLookupAlways(area_name) == TRUE

\* lines 158-159: the area name after a pickup flag has been seen;
\* flag["area_name"] raises KeyError if the key is missing
NeedsAreaLookup(area_name) == ~Truthy(area_name)

PickupType(name, friendly_name) == [name |-> name, friendly_name |-> friendly_name]

PickupEvent(date, pickup_types, area_name) ==
    [date |-> date, pickup_types |-> pickup_types, area_name |-> area_name]

\* lines 152-161: the inner loop from flag i on; st = [raised, area_name, pickup_types]
RECURSIVE FlagLoop(_, _, _)
FlagLoop(flags, i, st) ==
    IF i > Len(flags) \/ st.raised # None THEN st
    ELSE LET flag == flags[i] IN
         IF ~IsPickupFlag(flag) THEN FlagLoop(flags, i + 1, st)
         ELSE IF NeedsAreaLookup(st.area_name) /\ flag.area_name = Absent
              THEN [st EXCEPT !.raised = "KeyError"]
         ELSE FlagLoop(flags, i + 1,
                  [st EXCEPT
                     !.area_name = IF NeedsAreaLookup(st.area_name)
                                   THEN flag.area_name ELSE @,
                     !.pickup_types =
                         Append(@, PickupType(flag.name, Get(flag.subject)))])

\* a variant that includes every event with a "flags" collection
KeepEventAlways(pickup_types) == TRUE

\* line 165: an event with no pickup flags is not included
KeepEvent(pickup_types) == pickup_types # <<>>

\* lines 147-174: the outer loop from event i on; st = [raised, area_name, events]
RECURSIVE EventLoop(_, _, _)
EventLoop(evs, i, st) ==
    IF i > Len(evs) \/ st.raised # None THEN st
    ELSE LET event == evs[i] IN
         IF ~event.has_flags THEN EventLoop(evs, i + 1, st)
         ELSE LET inner == FlagLoop(event.flags, 1,
                               [raised |-> None, area_name |-> st.area_name,
                                pickup_types |-> <<>>])
              IN IF inner.raised # None
                 THEN [st EXCEPT !.raised = inner.raised]
                 ELSE IF ~KeepEvent(inner.pickup_types)
                 THEN EventLoop(evs, i + 1, [st EXCEPT !.area_name = inner.area_name])
                 ELSE EventLoop(evs, i + 1,
                          [st EXCEPT
                             !.area_name = inner.area_name,
                             !.events = Append(@, PickupEvent(Strptime(event.day),
                                                              inner.pickup_types,
                                                              inner.area_name))])

\* lines 144-176: [raised, events]
ParseEvents(evs) ==
    LET st == EventLoop(evs, 1, [raised |-> None, area_name |-> None, events |-> <<>>])
    IN [raised |-> st.raised, events |-> IF st.raised = None THEN st.events ELSE <<>>]

-----------------------------------------------------------------------------
(* async_get_next_pickup_event: the scan *)

NoEvent == PickupEvent(NoDate, <<>>, None)

\* a variant that passes over an event dated today
QualifiesStrictlyAfter(event, today) ==
    DateGE(event.date, today) /\ event.date # today

\* line 125: the test an event must pass to be returned
Qualifies(event, today) == DateGE(event.date, today)

\* a variant that keeps scanning and returns the last match
RECURSIVE ScanLoopLast(_, _, _)
ScanLoopLast(pickup_events, i, today) ==
    IF i > Len(pickup_events) THEN [found |-> FALSE, event |-> NoEvent]
    ELSE LET rest == ScanLoopLast(pickup_events, i + 1, today) IN
         IF rest.found THEN rest
         ELSE IF DateGE(pickup_events[i].date, today)
              THEN [found |-> TRUE, event |-> pickup_events[i]]
              ELSE rest

\* lines 124-127: the loop from event i on; [found, event]
RECURSIVE ScanLoop(_, _, _)
ScanLoop(pickup_events, i, today) ==
    IF i > Len(pickup_events) THEN [found |-> FALSE, event |-> NoEvent]
    ELSE IF Qualifies(pickup_events[i], today)
         THEN [found |-> TRUE, event |-> pickup_events[i]]
         ELSE ScanLoop(pickup_events, i + 1, today)

\* a variant that looks at the first event only
NextPickupEventFirstOnly(pickup_events, today) ==
    IF pickup_events # <<>> /\ DateGE(pickup_events[1].date, today)
    THEN [found |-> TRUE, event |-> pickup_events[1]]
    ELSE [found |-> FALSE, event |-> NoEvent]

\* lines 123-127
NextPickupEvent(pickup_events, today) == ScanLoop(pickup_events, 1, today)

-----------------------------------------------------------------------------
(* _async_get_pickup_data: the query *)

\* a variant that adds the range when either date is given
AddsDateRangeEither(start_date, end_date) == start_date # NoDate \/ end_date # NoDate

\* line 69: a date object is always truthy, None never is
AddsDateRange(start_date, end_date) == start_date # NoDate /\ end_date # NoDate

\* lines 68-70 and 95-98: the query of the request, as <<key, value>> pairs
Query(start_date, end_date) ==
    (IF AddsDateRange(start_date, end_date)
     THEN << <<"after", IsoFormat(start_date)>>, <<"before", IsoFormat(end_date)>> >>
     ELSE <<>>)
    \o << <<"hide", "reminder_only">> >>

-----------------------------------------------------------------------------
(* _async_request: session handling and error translation *)

\* a variant that does not look at session.closed
UseRunningSessionIfGiven(s) == s.given

\* line 90
UseRunningSession(s) == s.given /\ ~s.closed

\* a variant with the test inverted
MustCloseInverted(use_running_session) == use_running_session

\* line 107
MustClose(use_running_session) == ~use_running_session

\* What the server and the network can do to one request.  A body comes with
\* "ok" and with "status_json" (a non-2xx status whose body is JSON).
ReplyKinds ==
    {"ok", "connection_error", "timeout", "status_json", "status_other",
     "status_badjson"}

TransportFailures == ReplyKinds \ {"ok"}

\* lines 101-103: the exception the try block raises for a reply.
\* session.request raises on a connection error and when the total timeout
\* expires; resp.json() runs before resp.raise_for_status().
TryRaises(kind) ==
    CASE kind = "ok" -> None
      [] kind = "connection_error" -> "ClientConnectionError"
      [] kind = "timeout" -> "TimeoutError"
      [] kind = "status_json" -> "ClientResponseError"
      [] kind = "status_other" -> "ContentTypeError"
      [] kind = "status_badjson" -> "JSONDecodeError"

\* the subclasses of aiohttp's ClientError among the exceptions above
ClientErrors == {"ClientConnectionError", "ClientResponseError", "ContentTypeError"}

\* lines 104-105
ExceptClause(raised) == IF raised \in ClientErrors THEN "RequestError" ELSE raised

NoRequest == [on |-> -1, use_running_session |-> FALSE, path |-> "", query |-> <<>>]

NoPending == [raised |-> None, data |-> <<>>, on |-> -1]

NoReply == [kind |-> "none", body |-> <<>>]

NoResult == [status |-> "none", pickup_events |-> <<>>, event |-> NoEvent]

NoArgs == [start_date |-> NoDate, end_date |-> NoDate]

\* lines 123-127 and 141-176: what the public method does with the outcome of
\* _async_request
Finish(o, p) ==
    IF p.raised # None
    THEN [status |-> p.raised, pickup_events |-> <<>>, event |-> NoEvent]
    ELSE LET parsed == ParseEvents(p.data) IN
         IF parsed.raised # None
         THEN [status |-> parsed.raised, pickup_events |-> <<>>, event |-> NoEvent]
         ELSE IF o = "async_get_pickup_events"
         THEN [status |-> "returned", pickup_events |-> parsed.events, event |-> NoEvent]
         ELSE LET scan == NextPickupEvent(parsed.events, Today) IN
              [status |-> IF scan.found THEN "returned" ELSE "DataError",
               pickup_events |-> parsed.events,
               event |-> scan.event]

-----------------------------------------------------------------------------
(* The state machine *)

Init ==
    /\ session \in {[given |-> FALSE, closed |-> FALSE], [given |-> TRUE, closed |-> FALSE]}
    /\ created = <<>>
    /\ clientClosed = FALSE
    /\ pc = "idle"
    /\ op = "none"
    /\ args = NoArgs
    /\ request = NoRequest
    /\ pending = NoPending
    /\ reply = NoReply
    /\ result = NoResult
    /\ calls = 0

\* lines 68-72 and 90-101: up to the await of session.request
StartRequest(o, start_date, end_date) ==
    /\ pc = "idle"
    /\ calls < MaxCalls
    /\ calls' = calls + 1
    /\ op' = o
    /\ args' = [start_date |-> start_date, end_date |-> end_date]
    /\ LET use == UseRunningSession(session) IN
       /\ created' = IF use THEN created ELSE Append(created, "open")
       /\ request' = [on |-> IF use THEN 0 ELSE Len(created) + 1,
                      use_running_session |-> use,
                      path |-> API_URL_SCAFFOLD,
                      query |-> Query(start_date, end_date)]
    /\ pc' = "requesting"
    /\ UNCHANGED <<session, clientClosed, pending, reply, result>>

CallGetPickupEvents ==
    \E start_date \in StartDates, end_date \in EndDates :
        StartRequest("async_get_pickup_events", start_date, end_date)

\* line 123: no arguments
CallGetNextPickupEvent ==
    StartRequest("async_get_next_pickup_event", NoDate, NoDate)

\* lines 101-108 (and, on a running session, the rest of the call): the reply
\* arrives, the try block ends and the finally clause is entered
Receive ==
    /\ pc = "requesting"
    /\ \E kind \in ReplyKinds :
       \E body \in (IF kind = "ok" THEN Bodies
                    ELSE IF kind = "status_json" THEN {b \in Bodies : Len(b) <= 1}
                    ELSE {<<>>}) :
          LET p == [raised |-> ExceptClause(TryRaises(kind)),
                    data |-> IF TryRaises(kind) = None THEN body ELSE <<>>,
                    on |-> request.on]
          IN /\ reply' = [kind |-> kind, body |-> body]
             /\ IF MustClose(request.use_running_session)
                THEN /\ pc' = "closing"
                     /\ pending' = p
                     /\ result' = result
                ELSE /\ pc' = "done"
                     /\ pending' = NoPending
                     /\ result' = Finish(op, p)
    /\ request' = NoRequest
    /\ args' = NoArgs
    /\ UNCHANGED <<session, created, clientClosed, op, calls>>

\* line 108 and the rest of the call: session.close() returns
Close ==
    /\ pc = "closing"
    /\ IF pending.on = 0
       THEN /\ session' = [session EXCEPT !.closed = TRUE]
            /\ clientClosed' = TRUE
            /\ created' = created
       ELSE /\ created' = [created EXCEPT ![pending.on] = "closed"]
            /\ UNCHANGED <<session, clientClosed>>
    /\ result' = Finish(op, pending)
    /\ pending' = NoPending
    /\ pc' = "done"
    /\ UNCHANGED <<op, args, request, reply, calls>>

\* the caller takes the result (or the exception) and may call again
Return ==
    /\ pc = "done"
    /\ pc' = "idle"
    /\ op' = "none"
    /\ reply' = NoReply
    /\ result' = NoResult
    /\ UNCHANGED <<session, created, clientClosed, args, request, pending, calls>>

\* the caller closes the session it passed to Client(...)
CallerClose ==
    /\ session.given
    /\ ~session.closed
    /\ ~(pc = "requesting" /\ request.on = 0)
    /\ session' = [session EXCEPT !.closed = TRUE]
    /\ UNCHANGED <<created, clientClosed, pc, op, args, request, pending, reply,
                   result, calls>>

Next ==
    \/ CallGetPickupEvents
    \/ CallGetNextPickupEvent
    \/ Receive
    \/ Close
    \/ Return
    \/ CallerClose

Spec == Init /\ [][Next]_vars

-----------------------------------------------------------------------------
(* Vocabulary of the properties *)

Ordinal(dt) == dt.y * 10000 + dt.m * 100 + dt.d

Range(f) == { f[i] : i \in DOMAIN f }

QueryKeys(q) == { kv[1] : kv \in Range(q) }

Returned == pc = "done" /\ result.status = "returned"

\* the flag is a pickup flag, by the response's own field
PickupKind(flag) == flag.event_type = "pickup"

\* the event has a "flags" collection with at least one pickup flag
HasPickup(e) == e.has_flags /\ \E j \in 1..Len(e.flags) : PickupKind(e.flags[j])

\* the flag is a pickup flag that carries an area name
CarriesArea(flag) == PickupKind(flag) /\ flag.area_name \notin {Absent, None}

\* the positions, in upstream order, of the events with a pickup flag
RECURSIVE PickupPositions(_, _)
PickupPositions(body, i) ==
    IF i > Len(body) THEN <<>>
    ELSE (IF HasPickup(body[i]) THEN <<i>> ELSE <<>>) \o PickupPositions(body, i + 1)

\* what a pickup flag is expected to become
ExpectedType(flag) ==
    [name |-> flag.name,
     friendly_name |-> IF flag.subject = Absent THEN None ELSE flag.subject]

RECURSIVE ExpectedTypes(_, _)
ExpectedTypes(flags, j) ==
    IF j > Len(flags) THEN <<>>
    ELSE (IF PickupKind(flags[j]) THEN <<ExpectedType(flags[j])>> ELSE <<>>)
         \o ExpectedTypes(flags, j + 1)

-----------------------------------------------------------------------------
(* C1 *)

\* C1: once a call has completed (returned or raised), every session the
\* client constructed is closed, and the client has never closed the session
\* the caller supplied.
C1_OwnSessionsClosed ==
    /\ ~clientClosed
    /\ pc \in {"done", "idle"} =>
         \A i \in 1..Len(created) : created[i] = "closed"

\* a call that raised a non-request error on a session of its own, on a
\* client whose supplied session served the other call
C1_Witness ==
    /\ pc = "done"
    /\ calls = 2
    /\ session.given
    /\ Len(created) = 1
    /\ created[1] = "closed"
    /\ result.status = "TimeoutError"

-----------------------------------------------------------------------------
(* C2 *)

\* C2: a call whose HTTP exchange failed at the transport level (connection
\* error, timeout, non-2xx status) ends with RequestError.
C2_TransportFailureIsRequestError ==
    pc = "done" /\ reply.kind \in TransportFailures => result.status = "RequestError"

-----------------------------------------------------------------------------
(* C3 *)

\* C3: the list async_get_pickup_events returns is, in upstream order, the
\* events of the response that have a pickup flag: same number, same days,
\* same pickup types.
C3_ExactSubsequence ==
    Returned /\ op = "async_get_pickup_events" =>
        LET pos == PickupPositions(reply.body, 1)
            out == result.pickup_events
        IN /\ Len(out) = Len(pos)
           /\ \A i \in 1..Len(pos) :
                /\ IsoFormat(out[i].date) = reply.body[pos[i]].day
                /\ out[i].pickup_types = ExpectedTypes(reply.body[pos[i]].flags, 1)

\* a response whose first event has only a reminder flag and whose second
\* event mixes a reminder flag and a pickup flag
C3_Witness ==
    /\ Returned
    /\ op = "async_get_pickup_events"
    /\ Len(reply.body) = 2
    /\ reply.body[1].has_flags
    /\ Len(reply.body[1].flags) = 1
    /\ ~HasPickup(reply.body[1])
    /\ Len(reply.body[2].flags) = 2
    /\ ~PickupKind(reply.body[2].flags[1])
    /\ HasPickup(reply.body[2])
    /\ Len(result.pickup_events) = 1

-----------------------------------------------------------------------------
(* C4 *)

\* the first event with a pickup flag that carries an area name, or 0
FirstAreaEvent(body) ==
    LET S == { i \in 1..Len(body) :
                 body[i].has_flags /\
                 \E j \in 1..Len(body[i].flags) : CarriesArea(body[i].flags[j]) }
    IN IF S = {} THEN 0 ELSE CHOOSE i \in S : \A k \in S : i <= k

\* the area name of the first flag of event e that carries one
FirstAreaOf(e) ==
    LET J == { j \in 1..Len(e.flags) : CarriesArea(e.flags[j]) }
    IN e.flags[CHOOSE j \in J : \A k \in J : j <= k].area_name

-----------------------------------------------------------------------------
(* C5 *)

OnOrAfterToday(e) == Ordinal(e.date) >= Ordinal(Today)

\* C5: async_get_next_pickup_event sends a request without date bounds, and
\* the event it returns is the first of the parsed events dated today or
\* later: it is in the list, and every event before it is dated before today.
C5_FirstOnOrAfterToday ==
    /\ pc = "requesting" /\ op = "async_get_next_pickup_event" =>
         QueryKeys(request.query) \cap {"after", "before"} = {}
    /\ Returned /\ op = "async_get_next_pickup_event" =>
         \E i \in 1..Len(result.pickup_events) :
            /\ result.pickup_events[i] = result.event
            /\ OnOrAfterToday(result.event)
            /\ \A j \in 1..(i - 1) : ~OnOrAfterToday(result.pickup_events[j])

\* the returned event is dated today and is not the first of the list
C5_Witness ==
    /\ Returned
    /\ op = "async_get_next_pickup_event"
    /\ Len(result.pickup_events) = 2
    /\ ~OnOrAfterToday(result.pickup_events[1])
    /\ result.event = result.pickup_events[2]
    /\ result.event.date = Today

-----------------------------------------------------------------------------
(* C6 *)

\* C6: async_get_next_pickup_event ends with DataError exactly when the
\* request succeeded, the events were parsed into a list and no event of the
\* list is dated today or later; an event it returns is never dated before
\* today.
C6_DataErrorIffNoneLeft ==
    pc = "done" /\ op = "async_get_next_pickup_event" =>
        /\ result.status = "DataError" <=>
             /\ reply.kind = "ok"
             /\ result.status # "KeyError"
             /\ \A i \in 1..Len(result.pickup_events) :
                   ~OnOrAfterToday(result.pickup_events[i])
        /\ result.status = "returned" => OnOrAfterToday(result.event)

\* DataError on a list of two events, both dated before today
C6_Witness ==
    /\ pc = "done"
    /\ op = "async_get_next_pickup_event"
    /\ result.status = "DataError"
    /\ Len(result.pickup_events) = 2

-----------------------------------------------------------------------------
(* C7 *)

\* C7: the request of async_get_pickup_events carries after=<start_date> and
\* before=<end_date> in ISO form when both dates are given, and neither key
\* when one or both are missing.
C7_DateRangeQuery ==
    pc = "requesting" /\ op = "async_get_pickup_events" =>
        IF args.start_date # NoDate /\ args.end_date # NoDate
        THEN /\ <<"after", "2020-11-01">> \in Range(request.query)
             /\ <<"before", "2020-11-10">> \in Range(request.query)
        ELSE QueryKeys(request.query) \cap {"after", "before"} = {}

\* a request with both bounds
C7_Witness ==
    /\ pc = "requesting"
    /\ op = "async_get_pickup_events"
    /\ args.start_date # NoDate
    /\ args.end_date # NoDate
    /\ QueryKeys(request.query) = {"after", "before", "hide"}

-----------------------------------------------------------------------------
(* C8 *)

\* C8: on a successful response, whatever flags and optional fields its
\* events lack, async_get_pickup_events returns a list.
C8_ParsingNeverRaises ==
    pc = "done" /\ op = "async_get_pickup_events" /\ reply.kind = "ok" =>
        result.status = "returned"

-----------------------------------------------------------------------------
(* C9 *)

\* the parsed events dated today or later
Upcoming == { i \in 1..Len(result.pickup_events) :
                OnOrAfterToday(result.pickup_events[i]) }

IsEarliestUpcoming(e) ==
    \A i \in Upcoming : Ordinal(e.date) <= Ordinal(result.pickup_events[i].date)

Ascending(events) ==
    \A i, j \in 1..Len(events) :
        i < j => Ordinal(events[i].date) <= Ordinal(events[j].date)

-----------------------------------------------------------------------------
(* C10 *)

\* C10: a call sends its request on the supplied session exactly when one was
\* supplied and is open at that moment; otherwise it sends it on a session
\* constructed for this request, which no earlier request used.
C10_SessionSelection ==
    [][pc = "idle" /\ pc' = "requesting" =>
         /\ request'.on = 0 <=> (session.given /\ ~session.closed)
         /\ request'.on # 0 =>
              /\ request'.on = Len(created) + 1
              /\ created' = Append(created, "open")
         /\ request'.on = 0 => created' = created]_vars

\* a request in flight on a fresh session although a session was supplied:
\* the caller has closed it
C10_Witness ==
    /\ pc = "requesting"
    /\ session.given
    /\ session.closed
    /\ request.on = 1
    /\ created = <<"open">>

====
